---------------------------- MODULE Spec2Model ----------------------------
(***************************************************************************)
(* Model of cnns/train.py: the entry point (model construction, optional   *)
(* preload, optional freezing, replacement of the final layer, optimizer), *)
(* train_model (epochs, train/val phases, batches, loss and R2 metrics,    *)
(* plateau scheduler, best-model bookkeeping), its nested save_logs, and   *)
(* load_dataset.                                                           *)
(*                                                                         *)
(* The network is abstracted to two scalar parameters, one standing for    *)
(* all backbone parameters and one for the final layer fc, plus the output *)
(* width of fc.  Forward(w, x) is the prediction for input x.  Floating    *)
(* point values are exact rationals <<numerator, denominator>>.            *)
(***************************************************************************)
EXTENDS Integers, Sequences, FiniteSets, TLC

\* ------------------------------------------------------------- bounds
MaxEpochs == 2
MaxParam == 1
MaxData == 3
BatchSize == 2
MaxInterval == 2

\* ------------------------------------------------------------- program constants
Patience == 3
ResnetFcOut == 1000
HeadOut == 1
CropS1 == 300
CropOther == 100

\* ------------------------------------------------------------- rationals
RECURSIVE GCD(_, _)
GCD(a, b) == IF b = 0 THEN a ELSE GCD(b, a % b)

Abs(a) == IF a < 0 THEN -a ELSE a

\* the float n/d, d > 0, in lowest terms
Rat(n, d) == LET g == GCD(Abs(n), d) IN <<n \div g, d \div g>>

Zero == <<0, 1>>
One == <<1, 1>>
\* float("-inf") and float("inf")
NegInf == <<-1, 0>>
PosInf == <<1, 0>>

RatAdd(a, b) == Rat(a[1] * b[2] + b[1] * a[2], a[2] * b[2])
RatDivInt(a, k) == Rat(a[1], a[2] * k)
\* a < b and a > b on floats, the two infinities included
RatLt(a, b) == a[1] * b[2] < b[1] * a[2]
RatGt(a, b) == RatLt(b, a)

RECURSIVE SumSeq(_)
SumSeq(s) == IF s = <<>> THEN 0 ELSE Head(s) + SumSeq(Tail(s))

Min(a, b) == IF a < b THEN a ELSE b

\* ------------------------------------------------------------- data and network
ParamVals == 0..MaxParam
ParamNames == {"backbone", "head"}

\* torchvision.models.resnet18(pretrained=True): fixed weights, fc of width 1000
Pretrained == [backbone |-> 1, fc_out |-> ResnetFcOut, head |-> 0]

\* the i-th row of the train and of the val manifest: image x and label y
TrainSample(i) == [x |-> i % 2, y |-> i % 3]
ValSample(i) == [x |-> (i + 1) % 2, y |-> (i + 1) % 2]
Sample(ph, i) == IF ph = "train" THEN TrainSample(i) ELSE ValSample(i)

\* outputs = model(inputs), one input
Forward(w, x) == w.backbone * x + w.head

SqErr(t, p) == (t - p) * (t - p)

\* criterion = nn.MSELoss(): mean of the squared errors of one batch
MSELoss(outs, labels) ==
  Rat(SumSeq([k \in 1..Len(outs) |-> SqErr(labels[k], outs[k])]), Len(outs))

\* sklearn.metrics.r2_score(y_true, y_pred), both of the same length n >= 1
R2Score(yt, yp) ==
  LET n == Len(yt)
      num == SumSeq([k \in 1..n |-> SqErr(yt[k], yp[k])])
      s1 == SumSeq(yt)
      s2 == SumSeq([k \in 1..n |-> yt[k] * yt[k]])
      nden == n * s2 - s1 * s1
  IN IF nden # 0 THEN Rat(nden - n * num, nden)
     ELSE IF num = 0 THEN One ELSE Zero


\* ------------------------------------------------------------- state
VARIABLES
  pc,              \* position of the entry point / train_model
  use_gpu,         \* torch.cuda.is_available()
  torch04,         \* the installed torch is 0.4 (0-dim tensors, shape-checked
                   \* load_state_dict) and not 0.3
  args,            \* the parsed command line
  dataset_sizes,   \* {"train": n, "val": n} returned by load_dataset
  model,           \* the live parameters of model_conv
  requires_grad,   \* requires_grad of each parameter
  opt_params,      \* the parameters handed to optim.Adam
  training,        \* model.training, set by model.train(mode)
  best_model_wts,  \* [shared, wts]: a state dict; shared = it aliases the live tensors
  best_r2, best_y_pred, best_y_true,
  losses, r2s,     \* per phase, one entry per finished epoch
  scheduler,       \* ReduceLROnPlateau: best, num_bad_epochs, number of reductions
  epoch, phase,    \* loop variables of train_model
  y_true, y_pred, running_loss,
  order, pos,      \* the loader's sample order of this phase, and the batch index i
  files,           \* the run directory: tag (0 = the run directory itself) -> artifacts
  batch_log,       \* history: [loss, n] of every batch of the current phase
  val_hist,        \* history: parameters and predictions at the end of each val phase
  save_calls,      \* history: one entry per call of save_logs
  ld               \* one call of load_dataset: arguments, position, locals

vars == <<pc, use_gpu, torch04, args, dataset_sizes, model, requires_grad,
          opt_params, training, best_model_wts, best_r2, best_y_pred,
          best_y_true, losses, r2s, scheduler, epoch, phase, y_true, y_pred,
          running_loss, order, pos, files, batch_log, val_hist, save_calls, ld>>

configVars == <<use_gpu, torch04, args, dataset_sizes>>
setupVars == <<requires_grad, opt_params>>
bestVars == <<best_model_wts, best_r2, best_y_pred, best_y_true>>
metricVars == <<losses, r2s, scheduler>>
loopVars == <<epoch, phase, training, order>>
batchVars == <<y_true, y_pred, running_loss, pos, batch_log>>
fileVars == <<files, save_calls>>

\* a saved_model.model that save_logs of an earlier run wrote: the model it
\* saves has had fc replaced by nn.Linear(num_ftrs, 1)
PriorRunModel == [backbone |-> 0, fc_out |-> HeadOut, head |-> 1]

NoScheduler == [best |-> PosInf, num_bad_epochs |-> 0, reductions |-> 0]
NoHistory == [train |-> <<>>, val |-> <<>>]
NoLoad == [status |-> "idle", sat_type |-> "s1", country |-> "india",
           batch_size |-> 1, sizes |-> [train |-> 0, val |-> 0],
           data_transforms |-> <<>>, dataloaders |-> <<>>]

\* the command lines; log_epoch_interval is read only when verbose is set, so
\* it is left at train_model's default otherwise
Args ==
  {a \in [epochs : 0..MaxEpochs, fine_tune : BOOLEAN, verbose : BOOLEAN,
          log_epoch_interval : 1..MaxInterval, batch_size : {BatchSize},
          preload_model : {"", "prior_run"}] :
     ~a.verbose => a.log_epoch_interval = 1}

\* everything but the configuration, before the first step
InitRest ==
  /\ model = Pretrained
  /\ requires_grad = [p \in ParamNames |-> TRUE]
  /\ opt_params = {}
  /\ training = TRUE
  /\ best_model_wts = [shared |-> FALSE, wts |-> Pretrained]
  /\ best_r2 = NegInf
  /\ best_y_pred = <<>>
  /\ best_y_true = <<>>
  /\ losses = NoHistory
  /\ r2s = NoHistory
  /\ scheduler = NoScheduler
  /\ epoch = 0
  /\ phase = "none"
  /\ y_true = <<>>
  /\ y_pred = <<>>
  /\ running_loss = Zero
  /\ order = <<>>
  /\ pos = 0
  /\ files = <<>>
  /\ batch_log = <<>>
  /\ val_hist = <<>>
  /\ save_calls = <<>>

\* the entry point after load_dataset returned and resnet18 was constructed
Init ==
  /\ pc = "build_model"
  /\ use_gpu \in BOOLEAN
  /\ torch04 \in BOOLEAN
  /\ args \in Args
  /\ dataset_sizes \in [train : 2..MaxData, val : 2..MaxData]
  /\ ld = NoLoad
  /\ InitRest

\* ------------------------------------------------------------- entry point
\* model.load_state_dict(sd) does not raise: torch 0.4 wants every tensor of sd
\* to have the shape the model's has; torch 0.3 copies with broadcasting, which
\* also takes a tensor with one row for one with many
LoadStateDictOk(m, sd, t04) ==
  IF sd.fc_out = m.fc_out THEN TRUE ELSE ~t04 /\ sd.fc_out = 1

\* the model after load_state_dict(sd): the values of sd in the model's tensors
LoadStateDict(m, sd) == [m EXCEPT !.backbone = sd.backbone, !.head = sd.head]

\* lines 246-249 raise: the checkpoint's fc does not have the shape of resnet18's
BuildModelFail ==
  /\ pc = "build_model"
  /\ args.preload_model # ""
  /\ ~LoadStateDictOk(model, PriorRunModel, torch04)
  /\ pc' = "load_error"
  /\ UNCHANGED <<configVars, model, setupVars, bestVars, metricVars, loopVars,
                 batchVars, fileVars, val_hist, ld>>

\* lines 246-256: optional preload, optional freeze, then a fresh final layer
BuildModelOk ==
  /\ pc = "build_model"
  /\ args.preload_model # "" => LoadStateDictOk(model, PriorRunModel, torch04)
  /\ LET loaded == IF args.preload_model # ""
                   THEN LoadStateDict(model, PriorRunModel) ELSE model
         frozen == [p \in ParamNames |-> args.fine_tune]
     IN /\ \E w \in ParamVals :
             model' = [loaded EXCEPT !.fc_out = HeadOut, !.head = w]
        /\ requires_grad' = [frozen EXCEPT !["head"] = TRUE]
  /\ pc' = "build_optimizer"
  /\ UNCHANGED <<configVars, opt_params, bestVars, metricVars, loopVars,
                 batchVars, fileVars, val_hist, ld>>

\* every parameter is handed to the optimizer, whatever fine_tune is
OptimizerParamsAll(fine_tune) == ParamNames

\* lines 262-265: what optim.Adam is given
OptimizerParams(fine_tune) == IF fine_tune THEN ParamNames ELSE {"head"}

\* lines 257-267
BuildOptimizer ==
  /\ pc = "build_optimizer"
  /\ opt_params' = OptimizerParams(args.fine_tune)
  /\ pc' = "train_init"
  /\ UNCHANGED <<configVars, model, requires_grad, bestVars, metricVars,
                 loopVars, batchVars, fileVars, val_hist, ld>>

\* ------------------------------------------------------------- train_model
\* model.state_dict() as called at line 85: the dict holds the live tensors
StateDictLive(m) == [shared |-> TRUE, wts |-> m]

\* lines 172-176: on the GPU, model.cpu() copies the tensors to new CPU tensors,
\* state_dict() holds those, and model.cuda() moves the model to fresh tensors;
\* without a GPU the dict holds the live tensors
StateDictBest(m, gpu) == [shared |-> ~gpu, wts |-> m]

\* an in-place update of the live tensors is seen through every dict sharing them
WriteThrough(sd, m) == IF sd.shared THEN [sd EXCEPT !.wts = m] ELSE sd

\* lines 83-93
TrainInit ==
  /\ pc = "train_init"
  /\ best_model_wts' = StateDictLive(model)
  /\ best_r2' = NegInf
  /\ best_y_pred' = <<>>
  /\ best_y_true' = <<>>
  /\ losses' = NoHistory
  /\ r2s' = NoHistory
  /\ scheduler' = NoScheduler
  /\ pc' = "next_phase"
  /\ UNCHANGED <<configVars, model, setupVars, loopVars, batchVars, fileVars,
                 val_hist, ld>>

Perms(n) == {f \in [1..n -> 1..n] : \A i, j \in 1..n : f[i] = f[j] => i = j}
Identity(n) == [i \in 1..n |-> i]

\* DataLoader(shuffle=True) for train, shuffle=False for val
LoaderOrders(ph, n) == IF ph = "train" THEN Perms(n) ELSE {Identity(n)}

NumBatches(n, b) == (n + b - 1) \div b

NextPhaseOf(ph) == IF ph = "train" THEN "val" ELSE "train"
NextEpochOf(ph, e) == IF ph = "train" THEN e ELSE e + 1

\* lines 114, 120-130: the next phase of the loops starts
PhaseStart ==
  /\ pc = "next_phase"
  /\ NextEpochOf(phase, epoch) <= args.epochs
  /\ epoch' = NextEpochOf(phase, epoch)
  /\ phase' = NextPhaseOf(phase)
  /\ y_true' = <<>>
  /\ y_pred' = <<>>
  /\ training' = (phase' = "train")
  /\ running_loss' = Zero
  /\ order' \in LoaderOrders(phase', dataset_sizes[phase'])
  /\ pos' = 0
  /\ batch_log' = <<>>
  /\ pc' = "batch"
  /\ UNCHANGED <<configVars, model, setupVars, bestVars, metricVars, fileVars,
                 val_hist, ld>>

\* line 114: range(1, num_epochs + 1) is exhausted
LoopExit ==
  /\ pc = "next_phase"
  /\ NextEpochOf(phase, epoch) > args.epochs
  /\ pc' = "finish"
  /\ UNCHANGED <<configVars, model, setupVars, bestVars, metricVars, loopVars,
                 batchVars, fileVars, val_hist, ld>>

\* the sample indices of batch i (0-based) of the current phase
BatchIdx(ord, i, b) == SubSeq(ord, i * b + 1, Min((i + 1) * b, Len(ord)))

\* preds.squeeze().cpu().numpy().tolist(), preds of shape (n, 1): a list of n
\* numbers, except that torch 0.4, which has 0-dim tensors, squeezes (1, 1) to
\* a scalar, and tolist() of a scalar is a float
SqueezeToList(outs, zero_dim) ==
  [iterable |-> ~(zero_dim /\ Len(outs) = 1), items |-> outs]

\* backward and the optimizer step run in every phase
DoesBackwardAlways(ph) == TRUE

\* line 149: backward and optimizer.step() are run
DoesBackward(ph) == ph = "train"

\* optimizer.step(): Adam changes in place the parameters it was given that
\* have a gradient; the new values are whatever the gradients make them
StepResults(m, given, rg) ==
  {w \in [backbone : ParamVals, fc_out : {m.fc_out}, head : ParamVals] :
     \A p \in ParamNames : (p \notin given \/ ~rg[p]) => w[p] = m[p]}

\* lines 130-156, one batch
BatchStep ==
  /\ pc = "batch"
  /\ pos < NumBatches(dataset_sizes[phase], args.batch_size)
  /\ LET idx == BatchIdx(order, pos, args.batch_size)
         labels == [k \in 1..Len(idx) |-> Sample(phase, idx[k]).y]
         outs == [k \in 1..Len(idx) |-> Forward(model, Sample(phase, idx[k]).x)]
         loss == MSELoss(outs, labels)
         lst == SqueezeToList(outs, torch04)
     IN /\ y_true' = y_true \o labels
        /\ \/ /\ ~lst.iterable          \* line 147: list += float raises TypeError
              /\ pc' = "error"
              /\ UNCHANGED <<model, best_model_wts, y_pred, running_loss, pos,
                             batch_log>>
           \/ /\ lst.iterable
              /\ y_pred' = y_pred \o lst.items
              /\ IF DoesBackward(phase)
                 THEN \E w \in StepResults(model, opt_params, requires_grad) :
                        /\ model' = w
                        /\ best_model_wts' = WriteThrough(best_model_wts, w)
                 ELSE UNCHANGED <<model, best_model_wts>>
              /\ running_loss' = RatAdd(running_loss, loss)
              /\ pos' = pos + 1
              /\ batch_log' = Append(batch_log, [loss |-> loss, n |-> Len(idx)])
              /\ pc' = "batch"
  /\ UNCHANGED <<configVars, setupVars, best_r2, best_y_pred, best_y_true,
                 metricVars, loopVars, fileVars, val_hist, ld>>

\* scheduler.step(metric) of ReduceLROnPlateau(optimizer, "min", factor=0.1,
\* patience=3) with the library's relative threshold 1e-4
SchedulerStep(s, metric) ==
  LET better == \/ s.best = PosInf
                \/ metric[1] * s.best[2] * 10000 < s.best[1] * 9999 * metric[2]
      bad == IF better THEN 0 ELSE s.num_bad_epochs + 1
      b == IF better THEN metric ELSE s.best
  IN IF bad > Patience
     THEN [best |-> b, num_bad_epochs |-> 0, reductions |-> s.reductions + 1]
     ELSE [best |-> b, num_bad_epochs |-> bad, reductions |-> s.reductions]

\* the comparison of line 168 with >= in place of >
IsNewBestOrTie(r2, best) == ~RatLt(r2, best)

\* line 168
IsNewBest(r2, best) == RatGt(r2, best)

\* lines 95-112, save_logs(epoch_no): the artifacts it writes under tag
\* (0 for epoch_no = None); m is what line 112 serialises
SaveLogs(fs, tag, byp, byt, ls, rs, m) ==
  (tag :> [y_pred |-> byp, y_true |-> byt, losses |-> ls, rsq |-> rs,
           saved_model |-> m]) @@ fs

\* line 112: torch.save(model.state_dict(), ...)
SavedModelOf(m, best) == m

\* line 178
LogsNow(verbose, e, interval) == verbose /\ e % interval = 0

\* lines 158-179, the end of a phase
PhaseEnd ==
  /\ pc = "batch"
  /\ pos = NumBatches(dataset_sizes[phase], args.batch_size)
  /\ LET epoch_loss == RatDivInt(running_loss, dataset_sizes[phase])
         epoch_r2 == R2Score(y_true, y_pred)
         newbest == phase = "val" /\ IsNewBest(epoch_r2, best_r2)
     IN /\ losses' = [losses EXCEPT ![phase] = Append(@, epoch_loss)]
        /\ r2s' = [r2s EXCEPT ![phase] = Append(@, epoch_r2)]
        /\ scheduler' = IF phase = "val" THEN SchedulerStep(scheduler, epoch_loss)
                        ELSE scheduler
        /\ best_r2' = IF newbest THEN epoch_r2 ELSE best_r2
        /\ best_y_pred' = IF newbest THEN y_pred ELSE best_y_pred
        /\ best_y_true' = IF newbest THEN y_true ELSE best_y_true
        /\ best_model_wts' = IF newbest THEN StateDictBest(model, use_gpu)
                             ELSE best_model_wts
        /\ val_hist' = IF phase = "val"
                       THEN Append(val_hist, [wts |-> model, y_pred |-> y_pred])
                       ELSE val_hist
  /\ IF LogsNow(args.verbose, epoch, args.log_epoch_interval)
     THEN /\ files' = SaveLogs(files, epoch, best_y_pred', best_y_true', losses',
                               r2s', SavedModelOf(model, best_model_wts'.wts))
          /\ save_calls' = Append(save_calls,
                 [tag |-> epoch, phase |-> phase, n_train |-> Len(losses'.train),
                  n_val |-> Len(losses'.val)])
     ELSE UNCHANGED fileVars
  /\ pc' = "next_phase"
  /\ UNCHANGED <<configVars, model, setupVars, loopVars, batchVars, ld>>

\* lines 181-189: the final save_logs(), then the best state dict is loaded
Finish ==
  /\ pc = "finish"
  /\ files' = SaveLogs(files, 0, best_y_pred, best_y_true, losses, r2s,
                       SavedModelOf(model, best_model_wts.wts))
  /\ save_calls' = Append(save_calls,
         [tag |-> 0, phase |-> "end", n_train |-> Len(losses.train),
          n_val |-> Len(losses.val)])
  /\ LoadStateDictOk(model, best_model_wts.wts, torch04)
  /\ model' = LoadStateDict(model, best_model_wts.wts)
  /\ pc' = "returned"
  /\ UNCHANGED <<configVars, setupVars, bestVars, metricVars, loopVars,
                 batchVars, val_hist, ld>>

\* lines 275-277: the entry point saves the returned model over saved_model.model
MainSave ==
  /\ pc = "returned"
  /\ files' = [files EXCEPT ![0].saved_model = model]
  /\ pc' = "done"
  /\ UNCHANGED <<configVars, model, setupVars, bestVars, metricVars, loopVars,
                 batchVars, save_calls, val_hist, ld>>

Next ==
  \/ BuildModelFail
  \/ BuildModelOk
  \/ BuildOptimizer
  \/ TrainInit
  \/ PhaseStart
  \/ LoopExit
  \/ BatchStep
  \/ PhaseEnd
  \/ Finish
  \/ MainSave

Spec == Init /\ [][Next]_vars

\* ------------------------------------------------------------- load_dataset
SatTypes == {"s1", "l8", "s2"}
\* the imagery types the two crop presets are meant for
SupportedSatTypes == {"s1", "l8"}
Countries == {"bangladesh", "india", "nepal"}

\* lines 28-31
SatTransforms(sat_type) ==
  IF sat_type = "s1" THEN <<[op |-> "CenterCrop", size |-> CropS1],
                            [op |-> "Resize", size |-> 224]>>
  ELSE <<[op |-> "CenterCrop", size |-> CropOther],
         [op |-> "Resize", size |-> 224]>>

CommonTransforms == <<[op |-> "ToTensor", size |-> 0], [op |-> "Normalize", size |-> 0]>>

\* lines 32-44
DataTransforms(sat) ==
  [train |-> sat \o <<[op |-> "RandomHorizontalFlip", size |-> 0]>> \o CommonTransforms,
   val |-> sat \o CommonTransforms]

\* lines 28-44: the transform pipelines are built
LoadTransforms ==
  /\ ld.status = "call"
  /\ ld' = [ld EXCEPT !.status = "transforms",
                      !.data_transforms = DataTransforms(SatTransforms(ld.sat_type))]
  /\ UNCHANGED <<pc, configVars, model, setupVars, bestVars, metricVars,
                 loopVars, batchVars, fileVars, val_hist>>

\* lines 46-51
LoadCountry ==
  /\ ld.status = "transforms"
  /\ \/ /\ ld.country \in {"bangladesh", "india"}
        /\ ld' = [ld EXCEPT !.status = "datasets"]
     \/ /\ ld.country \notin {"bangladesh", "india"}
        /\ ld' = [ld EXCEPT !.status = "raised"]
  /\ UNCHANGED <<pc, configVars, model, setupVars, bestVars, metricVars,
                 loopVars, batchVars, fileVars, val_hist>>

\* lines 53-77: the datasets, the loaders and the sizes
LoadBuild ==
  /\ ld.status = "datasets"
  /\ \/ /\ ld' = [ld EXCEPT !.status = "returned",
                            !.dataloaders =
                               [train |-> [batch_size |-> ld.batch_size, shuffle |-> TRUE],
                                val |-> [batch_size |-> ld.batch_size, shuffle |-> FALSE]]]
        /\ dataset_sizes' = ld.sizes
     \/ /\ ld' = [ld EXCEPT !.status = "raised"]   \* a dataset constructor raises
        /\ UNCHANGED dataset_sizes
  /\ UNCHANGED <<pc, use_gpu, torch04, args, model, setupVars, bestVars,
                 metricVars, loopVars, batchVars, fileVars, val_hist>>

\* one call of load_dataset with any arguments
InitLoad ==
  /\ pc = "load_dataset"
  /\ use_gpu = FALSE
  /\ torch04 = FALSE
  /\ args = [epochs |-> 0, fine_tune |-> TRUE, verbose |-> FALSE,
             log_epoch_interval |-> 1, batch_size |-> 1, preload_model |-> ""]
  /\ dataset_sizes = [train |-> 0, val |-> 0]
  /\ ld \in [status : {"call"}, sat_type : SatTypes, country : Countries,
             batch_size : 1..BatchSize,
             sizes : [train : 0..MaxData, val : 0..MaxData],
             data_transforms : {<<>>}, dataloaders : {<<>>}]
  /\ InitRest

NextLoad ==
  \/ LoadTransforms
  \/ LoadCountry
  \/ LoadBuild

SpecLoad == InitLoad /\ [][NextLoad]_vars

\* ------------------------------------------------------------- properties
Last(s) == s[Len(s)]

\* the earliest index of s holding its maximum
ArgMaxFirst(s) ==
  CHOOSE i \in 1..Len(s) :
    /\ \A j \in 1..Len(s) : ~RatGt(s[j], s[i])
    /\ \A j \in 1..(i - 1) : RatLt(s[j], s[i])

RECURSIVE WeightedLossSum(_)
WeightedLossSum(log) ==
  IF log = <<>> THEN Zero
  ELSE RatAdd(Rat(Head(log).loss[1] * Head(log).n, Head(log).loss[2]),
              WeightedLossSum(Tail(log)))

InTrainModel == pc \in {"next_phase", "batch", "finish", "error"}
AfterTrainModel == pc \in {"returned", "done"}
PhaseJustEnded == pc = "next_phase" /\ phase \in {"train", "val"}

\* C1: once a val phase has set a best, best_model_wts holds the parameters the
\* model had at the end of the val phase of the epoch with the best R2, and
\* the model train_model returns carries those parameters.
C1_BestSnapshotIsBestEpoch ==
  Len(r2s.val) >= 1 =>
    /\ InTrainModel =>
         best_model_wts.wts = val_hist[ArgMaxFirst(r2s.val)].wts
    /\ AfterTrainModel => model = val_hist[ArgMaxFirst(r2s.val)].wts

\* C2: every checkpoint save_logs has written stores as saved_model the
\* parameters of the epoch whose predictions it stores as y_pred, the best epoch
\* of the R2 history in the same checkpoint.
C2_CheckpointStoresBest ==
  pc # "done" =>
    \A t \in DOMAIN files :
      Len(files[t].rsq.val) >= 1 =>
        files[t].saved_model = val_hist[ArgMaxFirst(files[t].rsq.val)].wts

\* C3: the epoch loss appended at the end of a phase is the sum over the
\* phase's batches of batch loss times batch size, divided by the dataset size.
C3_EpochLossIsWeightedMean ==
  PhaseJustEnded =>
    Last(losses[phase]) =
      RatDivInt(WeightedLossSum(batch_log), dataset_sizes[phase])

\* C4: no step of a val phase, a batch or the end of the phase, changes the
\* parameters of the model.
C4_ValLeavesParameters ==
  [][(pc = "batch" /\ phase = "val") => model' = model]_vars

C4_Witness ==
  /\ PhaseJustEnded
  /\ phase = "val"
  /\ epoch >= 2
  /\ Len(batch_log) >= 2
  /\ val_hist[1].wts # val_hist[2].wts

\* C5: best_r2 never decreases; best_r2, best_y_pred and best_y_true change only
\* at the end of a val phase whose R2 is strictly greater than best_r2; and after
\* every val phase best_r2 is the maximum val R2 so far and best_y_pred are the
\* predictions of the earliest epoch reaching it.
C5_BestR2 ==
  [][/\ ~RatLt(best_r2', best_r2)
     /\ <<best_r2, best_y_pred, best_y_true>>' # <<best_r2, best_y_pred, best_y_true>>
          => /\ pc = "batch" /\ phase = "val" /\ pc' = "next_phase"
             /\ RatGt(Last(r2s'.val), best_r2)
             /\ best_r2' = Last(r2s'.val)
     /\ Len(r2s'.val) >= 1 =>
          /\ best_r2' = r2s'.val[ArgMaxFirst(r2s'.val)]
          /\ best_y_pred' = val_hist'[ArgMaxFirst(r2s'.val)].y_pred
          /\ best_y_true' = [i \in 1..dataset_sizes.val |-> ValSample(i).y]
    ]_vars

\* a later epoch tied with the best one, with other predictions, and changed nothing
C5_Witness ==
  /\ PhaseJustEnded
  /\ Len(r2s.val) = 2
  /\ r2s.val[1] = r2s.val[2]
  /\ val_hist[1].y_pred # val_hist[2].y_pred
  /\ best_y_pred = val_hist[1].y_pred

\* C6: with --preload-model naming a checkpoint this program wrote, loading does
\* not fail and train_model is entered with exactly the checkpoint's parameters.
C6_PreloadedParametersKept ==
  args.preload_model # "" =>
    /\ pc # "load_error"
    /\ pc \in {"build_optimizer", "train_init"} =>
         /\ model.backbone = PriorRunModel.backbone
         /\ model.head = PriorRunModel.head

\* C7: load_dataset with an unsupported imagery type raises, and has built no
\* transform pipeline, dataset or loader.
C7_UnsupportedTypeFailsFast ==
  (ld.sat_type \notin SupportedSatTypes /\ ld.status \notin {"idle", "call"}) =>
    /\ ld.status = "raised"
    /\ ld.data_transforms = <<>>
    /\ ld.dataloaders = <<>>

C9_OneCheckpointPerLoggedEpoch ==
  /\ \A k \in DOMAIN save_calls :
       save_calls[k].tag # 0 =>
         /\ LogsNow(args.verbose, save_calls[k].tag, args.log_epoch_interval)
         /\ save_calls[k].n_train = save_calls[k].tag
         /\ save_calls[k].n_val = save_calls[k].tag
  /\ \A j, k \in DOMAIN save_calls :
       save_calls[j].tag = save_calls[k].tag => j = k
  /\ AfterTrainModel =>
       /\ \E k \in DOMAIN save_calls : save_calls[k].tag = 0
       /\ \A e \in 1..args.epochs :
            LogsNow(args.verbose, e, args.log_epoch_interval) =>
              \E k \in DOMAIN save_calls : save_calls[k].tag = e

\* C10: every phase completes without error, and at its end y_true and y_pred
\* have the length of the phase's dataset, the i-th entries belonging to the
\* i-th sample the loader delivered.
C10_PhaseCollectsAllPairs ==
  /\ pc # "error"
  /\ PhaseJustEnded =>
       /\ Len(y_true) = dataset_sizes[phase]
       /\ Len(y_pred) = dataset_sizes[phase]
       /\ \A i \in 1..Len(y_true) : y_true[i] = Sample(phase, order[i]).y
       /\ phase = "val" =>
            \A i \in 1..Len(y_pred) :
              y_pred[i] = Forward(model, Sample(phase, order[i]).x)

=============================================================================
